---------------------------- MODULE Spec2Model ----------------------------
(***************************************************************************)
(* Model of the receipt generator (GERADOR-RECIBOS): the period            *)
(* interpreter interpretarPeriodo, the file-name sanitizer, the employee   *)
(* CRUD handlers and the batch handler POST /gerar-recibos.                *)
(*                                                                         *)
(* A JavaScript string is a sequence of UTF-16 code units.  An ASCII code  *)
(* unit is written as itself ("a", "/", " "); any other code unit is       *)
(* written by its code point ("U+00E7" is c with cedilla, "U+0327" the     *)
(* combining cedilla).                                                     *)
(***************************************************************************)
EXTENDS Integers, Sequences, FiniteSets, TLC

VARIABLES
    caso,            \* the input handed to interpretarPeriodo, with how it was built
    resultado,       \* what interpretarPeriodo of src/index.js returned
    resultadoParte,  \* what interpretarPeriodo of src/unnamed/part_000 returned
    resultadoGemeo,  \* what src/index.js returned for the input without diacritics
    tokenArquivo,    \* the period token the handler derives from resultado
    recibo,          \* the fields of one employee's receipt, and the template
    conteudoHtml,    \* the text the substitution chain made of them
    ambienteAtual,   \* process.env.NODE_ENV || 'development'
    tabela,          \* rows of the table funcionarios
    proximoId,       \* next surrogate id the store assigns
    ultimaResposta,  \* the response of the last employee request
    tabelaAntes,     \* the table as it was when the last employee request arrived
    diretorio,       \* temp_pdfs: whether it exists, and the files in it
    lote,            \* per request slot: the batch request in flight, or the last answered
    removidos,       \* the files the last wipe of temp_pdfs removed
    geracao,         \* number of batch requests started so far
    formulario       \* the employee form of the page public/script.js drives

vars == <<caso, resultado, resultadoParte, resultadoGemeo, tokenArquivo, recibo,
          conteudoHtml, ambienteAtual, tabela,
          proximoId, ultimaResposta, tabelaAntes, diretorio, lote, removidos, geracao,
          formulario>>

varsPeriodo == <<caso, resultado, resultadoParte, resultadoGemeo, tokenArquivo>>
varsRecibo == <<recibo, conteudoHtml>>
varsFuncionarios == <<ambienteAtual, tabela, proximoId, ultimaResposta, tabelaAntes>>
varsLote == <<diretorio, lote, removidos, geracao>>
varsFormulario == <<formulario>>

-----------------------------------------------------------------------------
(* JavaScript values *)

Str(s) == [t |-> "string", s |-> s, n |-> 0]
Num(n) == [t |-> "number", s |-> <<>>, n |-> n]
Nulo == [t |-> "null", s |-> <<>>, n |-> 0]
Indefinido == [t |-> "undefined", s |-> <<>>, n |-> 0]
NaoNumero == [t |-> "NaN", s |-> <<>>, n |-> 0]

\* !v
Falsy(v) ==
    \/ v.t \in {"null", "undefined", "NaN"}
    \/ v.t = "string" /\ v.s = <<>>
    \/ v.t = "number" /\ v.n = 0

-----------------------------------------------------------------------------
(* Characters and strings *)

Digitos == <<"0", "1", "2", "3", "4", "5", "6", "7", "8", "9">>
Minusculas == <<"a", "b", "c", "d", "e", "f", "g", "h", "i", "j", "k", "l", "m",
                "n", "o", "p", "q", "r", "s", "t", "u", "v", "w", "x", "y", "z">>
Maiusculas == <<"A", "B", "C", "D", "E", "F", "G", "H", "I", "J", "K", "L", "M",
                "N", "O", "P", "Q", "R", "S", "T", "U", "V", "W", "X", "Y", "Z">>

Range(f) == {f[i] : i \in DOMAIN f}
EhDigito(c) == c \in Range(Digitos)
EhLetraAscii(c) == c \in Range(Minusculas) \cup Range(Maiusculas)
\* \s
EhEspaco(c) == c \in {" ", "\t"}
\* [U+0300-U+036F]: the combining marks of the model's alphabet
EhMarcaCombinante(c) == c \in {"U+0327", "U+0301"}

ValorDigito(c) == (CHOOSE i \in DOMAIN Digitos : Digitos[i] = c) - 1

\* String.prototype.toLowerCase, one code unit
MinusculaDe(c) ==
    IF c \in Range(Maiusculas)
    THEN Minusculas[CHOOSE i \in DOMAIN Maiusculas : Maiusculas[i] = c]
    ELSE IF c = "U+00C7" THEN "U+00E7"
    ELSE IF c = "U+00C9" THEN "U+00E9"
    ELSE c

toLowerCase(s) == [i \in DOMAIN s |-> MinusculaDe(s[i])]

\* canonical decomposition of one code unit
DecomporNFD(c) ==
    IF c = "U+00E7" THEN <<"c", "U+0327">>
    ELSE IF c = "U+00C7" THEN <<"C", "U+0327">>
    ELSE IF c = "U+00E9" THEN <<"e", "U+0301">>
    ELSE IF c = "U+00C9" THEN <<"E", "U+0301">>
    ELSE <<c>>

RECURSIVE normalizeNFD(_)
normalizeNFD(s) ==
    IF s = <<>> THEN <<>> ELSE DecomporNFD(Head(s)) \o normalizeNFD(Tail(s))

\* .normalize('NFD').replace(/[U+0300-U+036F]/g, '')
removerAcentos(s) == SelectSeq(normalizeNFD(s), LAMBDA c : ~EhMarcaCombinante(c))

\* s.replace(/[^a-z0-9]/gi, '-'): one hyphen for each code unit that is neither
\* an ASCII letter nor a digit
sanitizar(s) ==
    [i \in DOMAIN s |-> IF EhLetraAscii(s[i]) \/ EhDigito(s[i]) THEN s[i] ELSE "-"]

RECURSIVE trimInicio(_)
trimInicio(s) ==
    IF s # <<>> /\ EhEspaco(Head(s)) THEN trimInicio(Tail(s)) ELSE s

RECURSIVE trimFim(_)
trimFim(s) ==
    IF s # <<>> /\ EhEspaco(s[Len(s)]) THEN trimFim(SubSeq(s, 1, Len(s) - 1)) ELSE s

trim(s) == trimFim(trimInicio(s))

\* [\/\-\s]
EhSeparador(c) == c \in {"/", "-"} \/ EhEspaco(c)

\* s.split(/[\/\-\s]+/).filter(Boolean): the maximal runs of code units that
\* are not separators; atual is the run being read
RECURSIVE dividir(_, _)
dividir(s, atual) ==
    IF s = <<>>
    THEN IF atual = <<>> THEN <<>> ELSE <<atual>>
    ELSE IF EhSeparador(Head(s))
         THEN (IF atual = <<>> THEN <<>> ELSE <<atual>>) \o dividir(Tail(s), <<>>)
         ELSE dividir(Tail(s), Append(atual, Head(s)))

\* s.replace(/\s+/g, '_')
RECURSIVE espacosParaSublinhado(_)
espacosParaSublinhado(s) ==
    IF s = <<>> THEN <<>>
    ELSE IF EhEspaco(Head(s))
         THEN <<"_">> \o espacosParaSublinhado(trimInicio(s))
         ELSE <<Head(s)>> \o espacosParaSublinhado(Tail(s))

\* parseInt(s, 10) of a string of digits
RECURSIVE parseInt(_)
parseInt(s) ==
    IF s = <<>> THEN 0 ELSE 10 * parseInt(SubSeq(s, 1, Len(s) - 1)) + ValorDigito(s[Len(s)])

\* String(n) of a non-negative integer
RECURSIVE StringDeNumero(_)
StringDeNumero(n) ==
    IF n < 10 THEN <<Digitos[n + 1]>>
    ELSE StringDeNumero(n \div 10) \o <<Digitos[(n % 10) + 1]>>

\* s.padStart(2, '0')
padStart2(s) == IF Len(s) < 2 THEN <<"0">> \o s ELSE s

\* String(v)
StringDe(v) ==
    CASE v.t = "string" -> v.s
      [] v.t = "number" -> StringDeNumero(v.n)
      [] v.t = "null" -> <<"n", "u", "l", "l">>
      [] v.t = "undefined" -> <<"u", "n", "d", "e", "f", "i", "n", "e", "d">>
      [] OTHER -> <<"N", "a", "N">>

-----------------------------------------------------------------------------
(* interpretarPeriodo *)

mesesPorNome ==
    << [nome |-> <<"j", "a", "n", "e", "i", "r", "o">>, mes |-> 1],
       [nome |-> <<"f", "e", "v", "e", "r", "e", "i", "r", "o">>, mes |-> 2],
       [nome |-> <<"m", "a", "r", "U+00E7", "o">>, mes |-> 3],
       [nome |-> <<"m", "a", "r", "c", "o">>, mes |-> 3],
       [nome |-> <<"a", "b", "r", "i", "l">>, mes |-> 4],
       [nome |-> <<"m", "a", "i", "o">>, mes |-> 5],
       [nome |-> <<"j", "u", "n", "h", "o">>, mes |-> 6],
       [nome |-> <<"j", "u", "l", "h", "o">>, mes |-> 7],
       [nome |-> <<"a", "g", "o", "s", "t", "o">>, mes |-> 8],
       [nome |-> <<"s", "e", "t", "e", "m", "b", "r", "o">>, mes |-> 9],
       [nome |-> <<"o", "u", "t", "u", "b", "r", "o">>, mes |-> 10],
       [nome |-> <<"n", "o", "v", "e", "m", "b", "r", "o">>, mes |-> 11],
       [nome |-> <<"d", "e", "z", "e", "m", "b", "r", "o">>, mes |-> 12] >>

abreviaturas ==
    << [nome |-> <<"j", "a", "n">>, mes |-> 1], [nome |-> <<"f", "e", "v">>, mes |-> 2],
       [nome |-> <<"m", "a", "r">>, mes |-> 3], [nome |-> <<"a", "b", "r">>, mes |-> 4],
       [nome |-> <<"m", "a", "i">>, mes |-> 5], [nome |-> <<"j", "u", "n">>, mes |-> 6],
       [nome |-> <<"j", "u", "l">>, mes |-> 7], [nome |-> <<"a", "g", "o">>, mes |-> 8],
       [nome |-> <<"s", "e", "t">>, mes |-> 9], [nome |-> <<"o", "u", "t">>, mes |-> 10],
       [nome |-> <<"n", "o", "v">>, mes |-> 11], [nome |-> <<"d", "e", "z">>, mes |-> 12] >>

\* tabela[chave], with NaN standing for undefined: every value of the two
\* tables is a truthy number
Consultar(tab, chave) ==
    IF \E i \in DOMAIN tab : tab[i].nome = chave
    THEN Num(tab[CHOOSE i \in DOMAIN tab : tab[i].nome = chave].mes)
    ELSE NaoNumero

\* /^\d{1,2}$/.test(s)
UmOuDoisDigitos(s) == Len(s) \in {1, 2} /\ \A i \in DOMAIN s : EhDigito(s[i])

\* /^\d{4}$/.test(s)
QuatroDigitos(s) == Len(s) = 4 /\ \A i \in DOMAIN s : EhDigito(s[i])

\* s.substr(0, 3)
substr03(s) == SubSeq(s, 1, IF Len(s) < 3 THEN Len(s) ELSE 3)

\* mesDetectado after the block "if (partes.length >= 2)"
mesDetectado(partes) ==
    IF Len(partes) >= 2
    THEN LET possivelMes == toLowerCase(partes[1])
             semAcento == removerAcentos(possivelMes)
             abre == substr03(semAcento)
         IN  IF UmOuDoisDigitos(possivelMes) THEN Num(parseInt(possivelMes))
             ELSE IF Consultar(mesesPorNome, semAcento) # NaoNumero
                  THEN Consultar(mesesPorNome, semAcento)
                  ELSE Consultar(abreviaturas, abre)
    ELSE NaoNumero

\* anoDetectado after the block "if (partes.length >= 2)"
anoDetectado(partes) ==
    IF Len(partes) >= 2 /\ QuatroDigitos(partes[2])
    THEN Num(parseInt(partes[2]))
    ELSE NaoNumero

\* the Gregorian leap-year rule of the Date object
AnoBissexto(y) == (y % 4 = 0 /\ y % 100 # 0) \/ y % 400 = 0

\* new Date(ano, mes, 0).getDate(): the last day of month mes (1..12); the Date
\* constructor reads a year of 0..99 as 1900 + year
ultimoDia(ano, mes) ==
    LET y == IF ano \in 0..99 THEN 1900 + ano ELSE ano
    IN  IF mes = 2 THEN (IF AnoBissexto(y) THEN 29 ELSE 28)
        ELSE IF mes \in {4, 6, 9, 11} THEN 30 ELSE 31

\* the condition of the "if" that guards the resolved result
Resolvido(m, a) == m # NaoNumero /\ m.n >= 1 /\ m.n <= 12 /\ a # NaoNumero

\* `${mesFormatado}-${anoDetectado}`
stringSanitizadaResolvida(m, a) == padStart2(StringDeNumero(m.n)) \o <<"-">> \o StringDeNumero(a.n)

\* a variant with the range written "(01/MM a DD/MM)"
textoFormatadoComA(textoOriginal, m, a) ==
    LET mesFormatado == padStart2(StringDeNumero(m.n))
    IN  textoOriginal \o <<" ", "(", "0", "1", "/">> \o mesFormatado \o <<" ", "a", " ">>
        \o padStart2(StringDeNumero(ultimoDia(a.n, m.n))) \o <<"/">> \o mesFormatado
        \o <<")">>

\* index.js: `${textoOriginal} (01/MM) (DD/MM)`
textoFormatadoIndex(textoOriginal, m, a) ==
    LET mesFormatado == padStart2(StringDeNumero(m.n))
        dataInicioFormatada == <<"(", "0", "1", "/">> \o mesFormatado \o <<")">>
        dataFimFormatada == <<"(">> \o padStart2(StringDeNumero(ultimoDia(a.n, m.n)))
                            \o <<"/">> \o mesFormatado \o <<")">>
    IN  textoOriginal \o <<" ">> \o dataInicioFormatada \o <<" ">> \o dataFimFormatada

\* part_000: `${mesFormatado}/${anoDetectado} (01/MM a DD/MM)`
textoFormatadoParte(m, a) ==
    LET mesFormatado == padStart2(StringDeNumero(m.n))
        dataInicio == <<"0", "1", "/">> \o mesFormatado
        dataFim == padStart2(StringDeNumero(ultimoDia(a.n, m.n))) \o <<"/">> \o mesFormatado
    IN  mesFormatado \o <<"/">> \o StringDeNumero(a.n) \o <<" ", "(">> \o dataInicio
        \o <<" ", "a", " ">> \o dataFim \o <<")">>

Retorno(mes, ano, textoFormatado, stringSanitizada) ==
    [fim |-> "return", mes |-> mes, ano |-> ano, textoFormatado |-> textoFormatado,
     stringSanitizada |-> stringSanitizada]

\* no call made yet
Pendente ==
    [fim |-> "pendente", mes |-> Indefinido, ano |-> Indefinido,
     textoFormatado |-> Indefinido, stringSanitizada |-> Indefinido]

\* a TypeError leaves the function without a return value
Excecao ==
    [fim |-> "throw", mes |-> Indefinido, ano |-> Indefinido,
     textoFormatado |-> Indefinido, stringSanitizada |-> Indefinido]

\* a variant that names the file after the text of the period also when the
\* period is resolved, as the handler did before interpretarPeriodo existed
interpretarPeriodoTokenDoTexto(periodoEntrada) ==
    IF Falsy(periodoEntrada) \/ periodoEntrada.t # "string"
    THEN Retorno(Nulo, Nulo, periodoEntrada, Str(sanitizar(StringDe(periodoEntrada))))
    ELSE LET textoOriginal == trim(periodoEntrada.s)
             partes == dividir(textoOriginal, <<>>)
             m == mesDetectado(partes)
             a == anoDetectado(partes)
         IN  IF Resolvido(m, a)
             THEN Retorno(m, a, Str(textoFormatadoIndex(textoOriginal, m, a)),
                          Str(sanitizar(textoOriginal)))
             ELSE Retorno(Nulo, Nulo, Str(textoOriginal), Str(sanitizar(textoOriginal)))

\* a variant whose fallback works on the input as given, without trimming it
interpretarPeriodoSemTrim(periodoEntrada) ==
    IF Falsy(periodoEntrada) \/ periodoEntrada.t # "string"
    THEN Retorno(Nulo, Nulo, periodoEntrada, Str(sanitizar(StringDe(periodoEntrada))))
    ELSE LET textoOriginal == trim(periodoEntrada.s)
             partes == dividir(textoOriginal, <<>>)
             m == mesDetectado(partes)
             a == anoDetectado(partes)
         IN  IF Resolvido(m, a)
             THEN Retorno(m, a, Str(textoFormatadoIndex(textoOriginal, m, a)),
                          Str(stringSanitizadaResolvida(m, a)))
             ELSE Retorno(Nulo, Nulo, periodoEntrada, Str(sanitizar(periodoEntrada.s)))

\* interpretarPeriodo of src/index.js
interpretarPeriodo(periodoEntrada) ==
    IF Falsy(periodoEntrada) \/ periodoEntrada.t # "string"
    THEN Retorno(Nulo, Nulo, periodoEntrada, Str(sanitizar(StringDe(periodoEntrada))))
    ELSE LET textoOriginal == trim(periodoEntrada.s)
             partes == dividir(textoOriginal, <<>>)
             m == mesDetectado(partes)
             a == anoDetectado(partes)
         IN  IF Resolvido(m, a)
             THEN Retorno(m, a, Str(textoFormatadoIndex(textoOriginal, m, a)),
                          Str(stringSanitizadaResolvida(m, a)))
             ELSE Retorno(Nulo, Nulo, Str(textoOriginal), Str(sanitizar(textoOriginal)))

\* interpretarPeriodo of src/unnamed/part_000: the first branch calls
\* periodoEntrada.replace, which only a string has
interpretarPeriodoParte(periodoEntrada) ==
    IF Falsy(periodoEntrada) \/ periodoEntrada.t # "string"
    THEN IF periodoEntrada.t = "string"
         THEN Retorno(Nulo, Nulo, periodoEntrada, Str(sanitizar(periodoEntrada.s)))
         ELSE Excecao
    ELSE LET texto == trim(periodoEntrada.s)
             partes == dividir(texto, <<>>)
             m == mesDetectado(partes)
             a == anoDetectado(partes)
         IN  IF Resolvido(m, a)
             THEN Retorno(m, a, Str(textoFormatadoParte(m, a)),
                          Str(stringSanitizadaResolvida(m, a)))
             ELSE Retorno(Nulo, Nulo, Str(texto), Str(sanitizar(texto)))

-----------------------------------------------------------------------------
(* The inputs of interpretarPeriodo that are explored *)

\* number of blanks put around an input, at most
MaxEspacos == 1

\* the Portuguese month names as a user writes them
NomeDoMes ==
    << <<"j", "a", "n", "e", "i", "r", "o">>, <<"f", "e", "v", "e", "r", "e", "i", "r", "o">>,
       <<"m", "a", "r", "U+00E7", "o">>, <<"a", "b", "r", "i", "l">>, <<"m", "a", "i", "o">>,
       <<"j", "u", "n", "h", "o">>, <<"j", "u", "l", "h", "o">>,
       <<"a", "g", "o", "s", "t", "o">>, <<"s", "e", "t", "e", "m", "b", "r", "o">>,
       <<"o", "u", "t", "u", "b", "r", "o">>, <<"n", "o", "v", "e", "m", "b", "r", "o">>,
       <<"d", "e", "z", "e", "m", "b", "r", "o">> >>

\* the name with its first letter in upper case
Capitalizado(s) ==
    [i \in DOMAIN s |->
        IF i = 1 THEN Maiusculas[CHOOSE k \in DOMAIN Minusculas : Minusculas[k] = s[1]]
        ELSE s[i]]

\* the same text written without diacritics
SemDiacriticos(s) ==
    [i \in DOMAIN s |->
        CASE s[i] = "U+00E7" -> "c"
          [] s[i] = "U+00C7" -> "C"
          [] s[i] = "U+00E9" -> "e"
          [] s[i] = "U+00C9" -> "E"
          [] OTHER -> s[i]]

AnosQuatroDigitos ==
    {<<"2", "0", "2", "4">>, <<"2", "0", "2", "5">>, <<"1", "9", "0", "0">>,
     <<"2", "0", "0", "0">>, <<"0", "9", "9", "9">>}

AnosDoisDigitos == {<<"2", "5">>, <<"9", "9">>, <<"0", "7">>}

DoisDigitosDe(n) == <<Digitos[(n \div 10) + 1], Digitos[(n % 10) + 1]>>

Caso(forma, mes, ano, bruto) == [forma |-> forma, mes |-> mes, ano |-> ano, bruto |-> bruto]

\* "MonthName/YYYY", the name in lower case or capitalised
CasosNomeAno ==
    {Caso("nome/AAAA", m, a,
          Str((IF cap THEN Capitalizado(NomeDoMes[m]) ELSE NomeDoMes[m]) \o <<"/">> \o a)) :
        <<m, cap, a>> \in (1..12) \X BOOLEAN \X AnosQuatroDigitos}

\* "MM/YYYY" with two digits, and "M/YYYY" with one digit for 1..9
CasosNumeroAno ==
    {Caso("MM/AAAA", m, a, Str(DoisDigitosDe(m) \o <<"/">> \o a)) :
        <<m, a>> \in (1..12) \X AnosQuatroDigitos}
    \cup {Caso("M/AAAA", m, a, Str(<<Digitos[m + 1]>> \o <<"/">> \o a)) :
        <<m, a>> \in (1..9) \X AnosQuatroDigitos}

\* a month (name, abbreviation or number) with a two-digit year
CasosAnoDoisDigitos ==
    {Caso("mes/AA", m, a, Str(NomeDoMes[m] \o <<"/">> \o a)) :
        <<m, a>> \in (1..12) \X AnosDoisDigitos}
    \cup {Caso("mes/AA", m, a, Str(SubSeq(SemDiacriticos(NomeDoMes[m]), 1, 3) \o <<"/">> \o a)) :
        <<m, a>> \in (1..12) \X AnosDoisDigitos}
    \cup {Caso("mes/AA", m, a, Str(DoisDigitosDe(m) \o <<"/">> \o a)) :
        <<m, a>> \in (1..12) \X AnosDoisDigitos}

\* a numeric month outside 1..12
CasosMesForaDaFaixa ==
    {Caso("fora", 0, a, Str(n \o <<"/">> \o a)) :
        <<n, a>> \in {<<"0">>, <<"0", "0">>, <<"1", "3">>, <<"9", "9">>} \X AnosQuatroDigitos}

TextosLivres ==
    { <<"n", "o", "t", " ", "a", " ", "p", "e", "r", "i", "o", "d">>,
      <<"s", "e", "t", "e", "m", "b", "r", "o">>,
      <<"m", "a", "r", "U+00E7", "o">>,
      <<"2", "0", "2", "5">>,
      <<"s", "e", "t", "e", "m", "b", "r", "o", "2", "0", "2", "5">>,
      <<"0", "9", "-", "2", "0", "2", "5">>,
      <<"0", "9", " ", "2", "0", "2", "5">>,
      <<"0", "9", "/", "-", "2", "0", "2", "5">>,
      <<"0", "9", "/", "2", "0", "2", "5", "/", "x">>,
      <<"0", "9", "/", "2", "0", "x", "5">>,
      <<"0", "9", "/", "2", "0", "2", "5", "5">>,
      <<"0", "0", "9", "/", "2", "0", "2", "5">>,
      <<"s", "e", "t", "/", "2", "0", "2", "5">>,
      <<"S", "E", "T", "E", "M", "B", "R", "O", "/", "2", "0", "2", "5">>,
      <<"m", "a", "r", "t", "e", "/", "2", "0", "2", "5">>,
      <<"x", "y", "/", "2", "0", "2", "5">>,
      <<"m", "a", "r", "U+00E7", "o", "/">>,
      <<"/", "2", "0", "2", "5">>,
      <<"U+00E9", "!", "/", "_", ".">>,
      <<"S", "E", "T", "E", "M", "B", "R", "O">>,
      <<"S", "e", "t", "/", "2", "5">>,
      <<"/">> }

\* k blanks
Brancos(k) == [i \in 1..k |-> " "]

\* free text, the well-formed "09/2025" and "mar(c,)o/2025" included, with
\* 0..MaxEspacos blanks or one tab around it
CasosLivres ==
    {Caso("livre", 0, <<>>, Str(Brancos(k) \o s \o Brancos(j))) :
        <<k, j, s>> \in (0..MaxEspacos) \X (0..MaxEspacos) \X
            (TextosLivres \cup {<<"0", "9", "/", "2", "0", "2", "5">>,
                                <<"m", "a", "r", "U+00E7", "o", "/", "2", "0", "2", "5">>})}
    \cup {Caso("livre", 0, <<>>, Str(<<"\t">> \o s)) : s \in TextosLivres}
    \cup {Caso("livre", 0, <<>>, Str(Brancos(k))) : k \in 1..(MaxEspacos + 1)}

\* the empty string and the values that are not strings
CasosVazios ==
    {Caso("vazio", 0, <<>>, v) : v \in {Str(<<>>), Nulo, Indefinido, Num(0), Num(7), NaoNumero}}

Casos ==
    CasosNomeAno \cup CasosNumeroAno \cup CasosAnoDoisDigitos \cup CasosMesForaDaFaixa
    \cup CasosLivres \cup CasosVazios

-----------------------------------------------------------------------------
(* The employee store: table funcionarios *)

\* ids the store assigns, at most
MaxId == 3

Nomes == { <<"A", "n", "a", " ", "L", "i", "m", "a">>, <<"J", "o", "s", "U+00E9">> }
\* the k-th tax id of the model
CpfDe(k) == <<Digitos[k + 1], Digitos[k + 1], Digitos[k + 1]>>
Cpfs == {CpfDe(1), CpfDe(2)}
Salarios == {1500, 0}

\* the fields a request body carries: a name (maybe empty), a tax id, a salary
Corpos == [nome_completo : Nomes \cup {<<>>}, cpf : Cpfs, salario_base : Salarios]

Linha(id, corpo) ==
    [id |-> id, nome_completo |-> corpo.nome_completo, cpf |-> corpo.cpf,
     salario_base |-> corpo.salario_base]

Ids(tab) == {tab[i].id : i \in DOMAIN tab}

LinhasComCpf(tab, cpf) == {i \in DOMAIN tab : tab[i].cpf = cpf}

\* the unique constraint on cpf: writing cpf into the row id (0: a new row)
\* collides with another row
ViolaUnicidade(tab, cpf, id) == \E i \in DOMAIN tab : tab[i].cpf = cpf /\ tab[i].id # id

\* the client knex is configured with
clienteKnex(ambiente) == IF ambiente = "production" THEN "pg" ELSE "sqlite3"

\* erro.code of a unique violation, as the driver reports it
codigoViolacaoUnica(ambiente) ==
    IF clienteKnex(ambiente) = "pg" THEN "23505" ELSE "SQLITE_CONSTRAINT"

\* !nome_completo || !cpf || !salario_base
CamposFaltando(corpo) ==
    corpo.nome_completo = <<>> \/ corpo.cpf = <<>> \/ corpo.salario_base = 0

\* POST /api/funcionarios of src/index.js: the status it answers
statusPost(tab, corpo, ambiente) ==
    IF CamposFaltando(corpo) THEN 400
    ELSE IF ViolaUnicidade(tab, corpo.cpf, 0)
         THEN (IF codigoViolacaoUnica(ambiente) = "23505" THEN 409 ELSE 500)
         ELSE 201

\* POST /api/funcionarios of src/unnamed/part_000: every error is a 500
statusPostParte(tab, corpo) ==
    IF CamposFaltando(corpo) THEN 400
    ELSE IF ViolaUnicidade(tab, corpo.cpf, 0) THEN 500
    ELSE 201

\* knex('funcionarios').insert(...)
inserir(tab, id, corpo) == Append(tab, Linha(id, corpo))

\* PUT /api/funcionarios/:id: the status it answers
statusPut(tab, id, corpo) ==
    IF id \notin Ids(tab) THEN 404
    ELSE IF ViolaUnicidade(tab, corpo.cpf, id) THEN 500
    ELSE 200

\* a variant that writes the row also when no row has the id (an upsert)
atualizarOuInserir(tab, id, corpo) ==
    IF id \in Ids(tab)
    THEN [i \in DOMAIN tab |-> IF tab[i].id = id THEN Linha(id, corpo) ELSE tab[i]]
    ELSE Append(tab, Linha(id, corpo))

\* knex('funcionarios').where({ id }).update(...): the rows with that id, none
\* when the id is absent
atualizar(tab, id, corpo) ==
    [i \in DOMAIN tab |-> IF tab[i].id = id THEN Linha(id, corpo) ELSE tab[i]]

\* DELETE /api/funcionarios/:id: the status it answers
statusDelete(tab, id) == IF id \notin Ids(tab) THEN 404 ELSE 204

\* knex('funcionarios').where({ id }).del()
remover(tab, id) == SelectSeq(tab, LAMBDA l : l.id # id)

\* employees on file when the server is observed, at most
MaxFuncionarios == 2

\* the store contents the batch requests are observed on: ids and tax ids are
\* unique, names are free
TabelasIniciais ==
    UNION { { [i \in 1..n |-> Linha(i, [nome_completo |-> f[i], cpf |-> CpfDe(i),
                                        salario_base |-> 1500])] :
                f \in [1..n -> Nomes] } : n \in 0..MaxFuncionarios }

CorpoVazio == [nome_completo |-> <<>>, cpf |-> <<>>, salario_base |-> 0]

Resposta(rota, versao, id, corpo, status) ==
    [rota |-> rota, versao |-> versao, id |-> id, corpo |-> corpo, status |-> status]

SemResposta == Resposta("nenhuma", "index.js", 0, CorpoVazio, 0)

\* POST /api/funcionarios, src/index.js
PostFuncionarios ==
    \E corpo \in Corpos :
        LET status == statusPost(tabela, corpo, ambienteAtual)
        IN  /\ status = 201 => proximoId <= MaxId
            /\ tabelaAntes' = tabela
            /\ tabela' = IF status = 201 THEN inserir(tabela, proximoId, corpo) ELSE tabela
            /\ proximoId' = IF status = 201 THEN proximoId + 1 ELSE proximoId
            /\ ultimaResposta' = Resposta("POST", "index.js", 0, corpo, status)
            /\ UNCHANGED <<ambienteAtual, varsPeriodo, varsRecibo, varsLote, varsFormulario>>

\* POST /api/funcionarios, src/unnamed/part_000 (the SQLite server)
PostFuncionariosParte ==
    \E corpo \in Corpos :
        LET status == statusPostParte(tabela, corpo)
        IN  /\ ambienteAtual = "development"
            /\ status = 201 => proximoId <= MaxId
            /\ tabelaAntes' = tabela
            /\ tabela' = IF status = 201 THEN inserir(tabela, proximoId, corpo) ELSE tabela
            /\ proximoId' = IF status = 201 THEN proximoId + 1 ELSE proximoId
            /\ ultimaResposta' = Resposta("POST", "part_000", 0, corpo, status)
            /\ UNCHANGED <<ambienteAtual, varsPeriodo, varsRecibo, varsLote, varsFormulario>>

\* PUT /api/funcionarios/:id
PutFuncionarios ==
    \E id \in 1..MaxId, corpo \in Corpos :
        LET status == statusPut(tabela, id, corpo)
        IN  /\ tabelaAntes' = tabela
            /\ tabela' = IF status = 500 THEN tabela ELSE atualizar(tabela, id, corpo)
            /\ ultimaResposta' = Resposta("PUT", "index.js", id, corpo, status)
            /\ UNCHANGED <<ambienteAtual, proximoId, varsPeriodo, varsRecibo, varsLote, varsFormulario>>

\* DELETE /api/funcionarios/:id
DeleteFuncionarios ==
    \E id \in 1..MaxId :
        /\ tabelaAntes' = tabela
        /\ tabela' = remover(tabela, id)
        /\ ultimaResposta' = Resposta("DELETE", "index.js", id, CorpoVazio, statusDelete(tabela, id))
        /\ UNCHANGED <<ambienteAtual, proximoId, varsPeriodo, varsRecibo, varsLote, varsFormulario>>

-----------------------------------------------------------------------------
(* The batch handler: POST /gerar-recibos of src/index.js *)

\* batch requests started, at most
MaxLotes == 2

\* [a-zA-Z0-9\-_. ]
EhPermitidoEmNome(c) == EhLetraAscii(c) \/ EhDigito(c) \/ c \in {"-", "_", ".", " "}

sanitizarNomeArquivo(texto) ==
    espacosParaSublinhado(
        trim(SelectSeq(removerAcentos(texto), LAMBDA c : EhPermitidoEmNome(c))))

\* stringSanitizada.replace(/[^a-z0-9\-]/gi, '-')
periodoSanitizadoParaArquivo(stringSanitizada) ==
    [i \in DOMAIN stringSanitizada |->
        IF EhLetraAscii(stringSanitizada[i]) \/ EhDigito(stringSanitizada[i])
           \/ stringSanitizada[i] = "-"
        THEN stringSanitizada[i] ELSE "-"]

\* `RECIBO-PAGAMENTO-${nomeParaArquivo}-${periodoSanitizadoParaArquivo}.pdf`
nomeArquivoPdf(nomeCompleto, token) ==
    <<"R", "E", "C", "I", "B", "O", "-", "P", "A", "G", "A", "M", "E", "N", "T", "O", "-">>
    \o sanitizarNomeArquivo(nomeCompleto) \o <<"-">> \o token \o <<".", "p", "d", "f">>

\* the values of periodo the request bodies carry
PeriodosPedido ==
    { Str(<<"0", "9", "/", "2", "0", "2", "5">>), Str(<<"s", "e", "t", "/", "2", "5">>),
      Str(<<>>), Indefinido, Num(7) }

\* the request slots; one request at a time uses the first only
Slots == {1, 2}

LoteOcioso ==
    [pc |-> "ocioso", geracao |-> 0, periodo |-> Indefinido, carregou |-> FALSE,
     lista |-> <<>>, token |-> <<>>, resolvido |-> FALSE, idx |-> 0, arquivos |-> <<>>,
     navegador |-> "nenhum", pagina |-> "nenhuma", erro |-> FALSE, status |-> 0,
     anterior |-> 0, limpou |-> FALSE, corpo |-> "nenhum", respostas |-> 0,
     lancamentos |-> 0, paginasAbertas |-> 0, semExtenso |-> FALSE,
     valorPorExtenso |-> <<>>, awaitRejeitado |-> FALSE, apagadoEm |-> "nenhum"]

\* the handler's promise is pending
EmAndamento(l) == l.pc \notin {"ocioso", "respondido", "rejeitado"}

\* resposta.status(status).json(...): { message, files, periodo } with the 200,
\* { error } with every other status the handler sends
Responder(l, status) ==
    [l EXCEPT !.pc = "respondido", !.status = status,
              !.corpo = IF status = 200 THEN "files" ELSE "error",
              !.respostas = @ + 1]

\* an exception thrown outside the try block rejects the promise of the async
\* handler: Express 4 ignores the promise and no response is ever sent;
\* Express 5 hands the error to its default handler, which answers 500 with an
\* HTML page
RejeitarForaDoTry(l, express) ==
    IF express = "express5"
    THEN [l EXCEPT !.pc = "respondido", !.status = 500, !.corpo = "html", !.respostas = @ + 1]
    ELSE [l EXCEPT !.pc = "rejeitado"]

DiretorioAusente == [existe |-> FALSE, arquivos |-> {}]

\* a variant that only makes sure the directory exists
criarSemApagar(dir) == [existe |-> TRUE, arquivos |-> dir.arquivos]

\* fs.rmSync(dir, { recursive: true, force: true }) when it exists, then
\* fs.mkdirSync(dir, { recursive: true })
recriarDiretorio(dir) == [existe |-> TRUE, arquivos |-> {}]

\* a variant in which the write leaves no file
naoGravar(dir, nome, g, id) == dir

\* page.pdf({ path }) writes the file, replacing a file of the same name
gravarPdf(dir, nome, g, id) ==
    [dir EXCEPT !.arquivos =
        {f \in dir.arquivos : f.nome # nome} \cup {[nome |-> nome, geracao |-> g, id |-> id]}]

\* a variant that wipes and recreates before it looks at the period
apagarAntesDeValidar(dir, periodo, disco) ==
    IF disco = "rmSync" THEN dir
    ELSE IF disco = "mkdirSync" THEN DiretorioAusente
    ELSE recriarDiretorio(dir)

\* lines 405-412: the directory after the start of a request. A falsy period
\* returns the 400 before the directory is touched; else rmSync runs, which
\* may throw, and then mkdirSync, which may throw
diretorioAposInicio(dir, periodo, disco) ==
    IF Falsy(periodo) THEN dir
    ELSE IF disco = "rmSync" THEN dir
    ELSE IF disco = "mkdirSync" THEN DiretorioAusente
    ELSE recriarDiretorio(dir)

\* the request l, in flight, sees the directory wiped by another request:
\* apagadoEm keeps the step l was waiting on
verApagamento(l) == IF EmAndamento(l) THEN [l EXCEPT !.apagadoEm = l.pc] ELSE l

\* lines 403-415: validation, wipe and recreate, and the select is issued;
\* rmSync or mkdirSync may throw, outside the try block
GerarInicio(s, umPorVez) ==
    \E periodo \in PeriodosPedido, disco \in {"ok", "rmSync", "mkdirSync"},
       express \in {"express4", "express5"} :
        /\ ~EmAndamento(lote[s])
        /\ disco = "rmSync" => diretorio.existe
        /\ umPorVez => \A o \in Slots : ~EmAndamento(lote[o])
        /\ geracao < MaxLotes
        /\ geracao' = geracao + 1
        /\ LET novo == [LoteOcioso EXCEPT !.geracao = geracao + 1, !.periodo = periodo,
                                           !.anterior = lote[s].status]
               depois == diretorioAposInicio(diretorio, periodo, disco)
               apagou == ~Falsy(periodo) /\ disco # "rmSync"
           IN  /\ lote' = [o \in Slots |->
                     IF o # s THEN (IF apagou THEN verApagamento(lote[o]) ELSE lote[o])
                     ELSE IF Falsy(periodo) THEN Responder(novo, 400)
                     ELSE IF disco # "ok" THEN RejeitarForaDoTry(novo, express)
                     ELSE [novo EXCEPT !.pc = "select", !.limpou = TRUE]]
               /\ diretorio' = depois
               /\ removidos' = IF Falsy(periodo) THEN removidos
                                ELSE IF disco = "rmSync" THEN {}
                                ELSE diretorio.arquivos
        /\ UNCHANGED <<varsPeriodo, varsRecibo, varsFuncionarios, varsFormulario>>

\* a variant without the check of the empty list
aposSelectSemVerificarVazio(l, tab, falha) ==
    LET resultadoPeriodo == interpretarPeriodo(Str(StringDe(l.periodo)))
    IN  IF falha = "select" THEN Responder(l, 500)
        ELSE IF falha = "template"
             THEN Responder([l EXCEPT !.carregou = TRUE, !.lista = tab], 500)
        ELSE [l EXCEPT !.carregou = TRUE, !.lista = tab, !.pc = "launch",
                       !.resolvido = (resultadoPeriodo.mes # Nulo),
                       !.token = periodoSanitizadoParaArquivo(
                                     resultadoPeriodo.stringSanitizada.s)]

\* lines 415-426, from the moment the select returns tab: the 404 of an empty
\* list; else the template is read, the period interpreted and the launch issued
aposSelect(l, tab, falha) ==
    LET resultadoPeriodo == interpretarPeriodo(Str(StringDe(l.periodo)))
    IN  IF falha = "select" THEN Responder(l, 500)
        ELSE IF tab = <<>> THEN Responder([l EXCEPT !.carregou = TRUE], 404)
        ELSE IF falha = "template"
             THEN Responder([l EXCEPT !.carregou = TRUE, !.lista = tab], 500)
        ELSE [l EXCEPT !.carregou = TRUE, !.lista = tab, !.pc = "launch",
                       !.resolvido = (resultadoPeriodo.mes # Nulo),
                       !.token = periodoSanitizadoParaArquivo(
                                     resultadoPeriodo.stringSanitizada.s)]

\* lines 415-426: the select resolves or rejects
GerarCarregar(s) ==
    \E falha \in {"nenhuma", "select", "template"} :
        /\ lote[s].pc = "select"
        /\ lote' = [lote EXCEPT ![s] = aposSelect(lote[s], tabela, falha)]
        /\ UNCHANGED <<diretorio, removidos, geracao, varsPeriodo, varsRecibo, varsFuncionarios, varsFormulario>>

\* navegador.newPage() opens one more page
abrirPagina(n) == n + 1

\* a variant in which pagina.close() closes nothing
manterPagina(n) == n

\* pagina.close() closes one page
fecharPagina(n) == n - 1

\* lines 427-433: puppeteer.launch resolves or rejects; the loop is entered
LancarNavegador(s) ==
    \E falha \in BOOLEAN :
        LET l == lote[s]
        IN  /\ l.pc = "launch"
            /\ lote' = [lote EXCEPT ![s] =
                  IF falha THEN Responder([l EXCEPT !.lancamentos = @ + 1], 500)
                  ELSE [l EXCEPT !.navegador = "aberto", !.idx = 1, !.lancamentos = @ + 1,
                                 !.pc = IF Len(l.lista) >= 1 THEN "newPage" ELSE "finally"]]
            /\ UNCHANGED <<diretorio, removidos, geracao, varsPeriodo, varsRecibo, varsFuncionarios, varsFormulario>>

\* a variant that skips the employee whose render failed and goes on
FalharEContinuar(l) ==
    [l EXCEPT !.erro = TRUE, !.idx = l.idx + 1,
              !.pc = IF l.idx = Len(l.lista) THEN "finally" ELSE "newPage"]

\* a rejected await inside the inner try: control goes to the finally block
Falhar(l) == [l EXCEPT !.erro = TRUE, !.awaitRejeitado = TRUE, !.pc = "finally"]

\* the text numeroPorExtenso.porExtenso(...).toUpperCase() gives for an amount
PorExtenso == <<"M", "I", "L", " ", "R", "E", "A", "I", "S">>

\* a variant in which a failed conversion is not caught
converterOuAbortar(l, falhou) ==
    IF falhou
    THEN [l EXCEPT !.semExtenso = TRUE, !.erro = TRUE, !.pc = "finally"]
    ELSE [l EXCEPT !.semExtenso = FALSE, !.valorPorExtenso = PorExtenso]

\* lines 441-446: valorPorExtenso starts as '' and gets the words unless the
\* conversion throws; the catch block only warns. In part_000 (243-256) a
\* second conversion is tried first, with the same two outcomes. semExtenso
\* tells whether the conversion failed for the employee at idx
converterPorExtenso(l, falhou) ==
    IF falhou
    THEN [l EXCEPT !.semExtenso = TRUE, !.valorPorExtenso = <<>>]
    ELSE [l EXCEPT !.semExtenso = FALSE, !.valorPorExtenso = PorExtenso]

\* lines 434-461: the fields of one employee, the conversion of the amount
\* and navegador.newPage()
NovaPagina(s) ==
    \E falha \in BOOLEAN, falhouExtenso \in BOOLEAN :
        LET l == converterPorExtenso(lote[s], falhouExtenso)
        IN  /\ lote[s].pc = "newPage"
            /\ lote' = [lote EXCEPT ![s] =
                  IF l.pc # "newPage" THEN l
                  ELSE IF falha THEN Falhar(l)
                  ELSE [l EXCEPT !.pagina = "aberta", !.pc = "setContent",
                                 !.paginasAbertas = abrirPagina(@)]]
            /\ UNCHANGED <<diretorio, removidos, geracao, varsPeriodo, varsRecibo, varsFuncionarios, varsFormulario>>

\* line 462: pagina.setContent(conteudoHtml)
DefinirConteudo(s) ==
    \E falha \in BOOLEAN :
        LET l == lote[s]
        IN  /\ l.pc = "setContent"
            /\ lote' = [lote EXCEPT ![s] = IF falha THEN Falhar(l) ELSE [l EXCEPT !.pc = "pdf"]]
            /\ UNCHANGED <<diretorio, removidos, geracao, varsPeriodo, varsRecibo, varsFuncionarios, varsFormulario>>

\* a variant that puts the name in front of the list
registrarNoInicio(arquivos, nome) == <<nome>> \o arquivos

\* nomesArquivosGerados.push(nomeArquivoPdf)
registrarArquivo(arquivos, nome) == Append(arquivos, nome)

\* a variant that reads the employee of the turn from the table again
funcionarioRelido(l, tab) == IF l.idx \in DOMAIN tab THEN tab[l.idx] ELSE l.lista[l.idx]

\* for (const funcionario of listaFuncionarios): the employee of the turn is
\* an element of the array the select returned, whatever the table holds now
funcionarioDaVez(l, tab) == l.lista[l.idx]

\* lines 464-469: pagina.pdf({ path }) and the push of the file name; the write
\* fails when the directory is gone
GerarPdf(s) ==
    \E falha \in BOOLEAN :
        LET l == lote[s]
            funcionario == funcionarioDaVez(l, tabela)
            nome == nomeArquivoPdf(funcionario.nome_completo, l.token)
        IN  /\ l.pc = "pdf"
            /\ IF falha \/ ~diretorio.existe
               THEN /\ lote' = [lote EXCEPT ![s] = Falhar(l)]
                    /\ UNCHANGED diretorio
               ELSE /\ lote' = [lote EXCEPT ![s] =
                            [l EXCEPT !.arquivos = registrarArquivo(l.arquivos, nome),
                                      !.pc = "close"]]
                    /\ diretorio' = gravarPdf(diretorio, nome, l.geracao, funcionario.id)
            /\ UNCHANGED <<removidos, geracao, varsPeriodo, varsRecibo, varsFuncionarios, varsFormulario>>

\* line 471: pagina.close(), and the loop goes on or ends
FecharPagina(s) ==
    \E falha \in BOOLEAN :
        LET l == lote[s]
        IN  /\ l.pc = "close"
            /\ lote' = [lote EXCEPT ![s] =
                  IF falha THEN Falhar(l)
                  ELSE [l EXCEPT !.pagina = "fechada", !.idx = l.idx + 1,
                                 !.paginasAbertas = fecharPagina(@),
                                 !.pc = IF l.idx = Len(l.lista) THEN "finally" ELSE "newPage"]]
            /\ UNCHANGED <<diretorio, removidos, geracao, varsPeriodo, varsRecibo, varsFuncionarios, varsFormulario>>

\* a variant without the finally block: the response is sent with the browser
\* as it is
ResponderSemFechar(s) ==
    /\ lote[s].pc = "finally"
    /\ lote' = [lote EXCEPT ![s] = Responder(lote[s], IF lote[s].erro THEN 500 ELSE 200)]
    /\ UNCHANGED <<diretorio, removidos, geracao, varsPeriodo, varsRecibo, varsFuncionarios, varsFormulario>>

\* lines 473-486: the finally block calls navegador.close(), which closes the
\* browser with its pages or rejects; then the 200, or the catch block's 500
FecharNavegador(s) ==
    \E falha \in BOOLEAN :
        LET l == lote[s]
        IN  /\ l.pc = "finally"
            /\ lote' = [lote EXCEPT ![s] =
                  IF falha THEN Responder([l EXCEPT !.navegador = "fechamento rejeitado"], 500)
                  ELSE Responder([l EXCEPT !.navegador = "fechado", !.paginasAbertas = 0,
                                           !.pagina = IF l.pagina = "nenhuma" THEN "nenhuma"
                                                      ELSE "fechada"],
                                 IF l.erro THEN 500 ELSE 200)]
            /\ UNCHANGED <<diretorio, removidos, geracao, varsPeriodo, varsRecibo, varsFuncionarios, varsFormulario>>

-----------------------------------------------------------------------------
(* The text of one receipt: the substitution chain of the batch handler *)

\* s holds pat from position i on
ComecaCom(s, i, pat) == i + Len(pat) - 1 <= Len(s) /\ SubSeq(s, i, i + Len(pat) - 1) = pat

\* the replacement string of String.prototype.replace, expanded for one match:
\* $$ is a dollar sign, $& the matched text, $ and a grave accent (U+0060)
\* the text before the match, $ and an apostrophe (U+0027) the text after it;
\* any other $ stands for itself (the patterns have no capture groups)
RECURSIVE expandirSubstituto(_, _, _, _)
expandirSubstituto(substituto, casado, antes, depois) ==
    IF substituto = <<>> THEN <<>>
    ELSE IF Head(substituto) = "$" /\ Len(substituto) >= 2
              /\ substituto[2] \in {"$", "&", "U+0060", "U+0027"}
         THEN (CASE substituto[2] = "$" -> <<"$">>
                 [] substituto[2] = "&" -> casado
                 [] substituto[2] = "U+0060" -> antes
                 [] OTHER -> depois)
              \o expandirSubstituto(Tail(Tail(substituto)), casado, antes, depois)
         ELSE <<Head(substituto)>>
              \o expandirSubstituto(Tail(substituto), casado, antes, depois)

\* the first position from i on where s holds pat, 0 when there is none
proximaOcorrencia(s, i, pat) ==
    LET posicoes == {j \in i..Len(s) : ComecaCom(s, j, pat)}
    IN  IF posicoes = {} THEN 0 ELSE CHOOSE j \in posicoes : \A k \in posicoes : j <= k

\* s.replace(/pat/g, substituto) from position i on, pat a literal text: the
\* matches are found from left to right in s and do not overlap
RECURSIVE substituirDesde(_, _, _, _)
substituirDesde(s, i, pat, substituto) ==
    LET j == proximaOcorrencia(s, i, pat)
    IN  IF j = 0 THEN SubSeq(s, i, Len(s))
        ELSE SubSeq(s, i, j - 1)
             \o expandirSubstituto(substituto, pat, SubSeq(s, 1, j - 1),
                                   SubSeq(s, j + Len(pat), Len(s)))
             \o substituirDesde(s, j + Len(pat), pat, substituto)

\* s.replace(/pat/g, substituto)
substituirTodos(s, pat, substituto) == substituirDesde(s, 1, pat, substituto)

\* the placeholders of the template, in the order of the chain
Marcador_NOME == <<"{", "{", "N", "O", "M", "E", "}", "}">>
Marcador_CPF == <<"{", "{", "C", "P", "F", "}", "}">>
Marcador_VALOR_FORMATADO == <<"{", "{", "V", "A", "L", "O", "R", "_", "F", "O", "R",
                              "M", "A", "T", "A", "D", "O", "}", "}">>
Marcador_VALOR_POR_EXTENSO == <<"{", "{", "V", "A", "L", "O", "R", "_", "P", "O", "R",
                                "_", "E", "X", "T", "E", "N", "S", "O", "}", "}">>
Marcador_PERIODO == <<"{", "{", "P", "E", "R", "I", "O", "D", "O", "}", "}">>
Marcador_DATA_ATUAL == <<"{", "{", "D", "A", "T", "A", "_", "A", "T", "U", "A", "L",
                         "}", "}">>
Marcador_EMPRESA_NOME == <<"{", "{", "E", "M", "P", "R", "E", "S", "A", "_", "N", "O",
                           "M", "E", "}", "}">>
Marcador_EMPRESA_CNPJ == <<"{", "{", "E", "M", "P", "R", "E", "S", "A", "_", "C", "N",
                           "P", "J", "}", "}">>
Marcador_CIDADE == <<"{", "{", "C", "I", "D", "A", "D", "E", "}", "}">>

\* DADOS_EMPRESA
DADOS_EMPRESA ==
    [nome |-> <<"A", "l", "i", "a", "n", "U+00E7", "a", " ", "C", "o", "n", "s", "i",
                "g">>,
     cnpj |-> <<"5", "0", ".", "1", "1", "3", ".", "1", "1", "6", "/", "0", "0", "0",
                "1", "-", "0", "5">>,
     cidade |-> <<"B", "r", "a", "s", "U+00ED", "l", "i", "a">>]

\* the fields of a receipt that do not come from the request: the formatted
\* amount of R$ 1.500,00, its words, the text of the period "09/2025" and the
\* date of the day
valorFormatado == <<"R", "$", "U+00A0", "1", ".", "5", "0", "0", ",", "0", "0">>
periodoCompleto == interpretarPeriodo(Str(<<"0", "9", "/", "2", "0", "2", "5">>)).textoFormatado.s
dataAtualFormatada ==
    <<"0", "3", " ", "d", "e", " ", "n", "o", "v", "e", "m", "b", "r", "o", " ", "d",
      "e", " ", "2", "0", "2", "6">>

\* lines 450-459: the chain of nine replacements, each over the result of the
\* one before
montarConteudoHtml(arquivoTemplate, nomeCompleto, cpf) ==
    LET c1 == substituirTodos(arquivoTemplate, Marcador_NOME, nomeCompleto)
        c2 == substituirTodos(c1, Marcador_CPF, cpf)
        c3 == substituirTodos(c2, Marcador_VALOR_FORMATADO, valorFormatado)
        c4 == substituirTodos(c3, Marcador_VALOR_POR_EXTENSO, PorExtenso)
        c5 == substituirTodos(c4, Marcador_PERIODO, periodoCompleto)
        c6 == substituirTodos(c5, Marcador_DATA_ATUAL, dataAtualFormatada)
        c7 == substituirTodos(c6, Marcador_EMPRESA_NOME, DADOS_EMPRESA.nome)
        c8 == substituirTodos(c7, Marcador_EMPRESA_CNPJ, DADOS_EMPRESA.cnpj)
    IN  substituirTodos(c8, Marcador_CIDADE, DADOS_EMPRESA.cidade)

-----------------------------------------------------------------------------
(* The employee form of the page: public/script.js *)

\* the page as DOMContentLoaded leaves it: let isEditing = false, the hidden
\* field employee-id empty (0), no status message, no save under way.
\* salvamento, metodo and editando are the outcome, the method and the edit
\* mode of the last call of saveEmployee
FormularioInicial ==
    [pc |-> "ocioso", isEditing |-> FALSE, employeeId |-> 0, statusMessage |-> "",
     salvamento |-> "nenhum", metodo |-> "nenhum", editando |-> FALSE, url |-> 0,
     corpo |-> CorpoVazio]

InitFormularioNenhum == formulario = FormularioInicial

\* resetForm: the fields are cleared and the form is in creation mode
resetForm(f) == [f EXCEPT !.employeeId = 0, !.isEditing = FALSE]

\* response.ok
RespostaOk(status) == status \in 200..299

\* the word the success message is built with:
\* `${isEditing ? 'atualizado' : 'salvo'}`, read when the message is set
palavraDoSucesso(f) == IF f.isEditing THEN "atualizado" ELSE "salvo"

\* saveEmployee up to its first await: url and method are taken from
\* isEditing and the hidden field, and the request is sent
EnviarSalvamento ==
    \E corpo \in Corpos :
        /\ formulario.pc = "ocioso"
        /\ formulario' = [formulario EXCEPT
               !.pc = "fetch", !.salvamento = "em curso", !.corpo = corpo,
               !.editando = formulario.isEditing,
               !.metodo = IF formulario.isEditing THEN "PUT" ELSE "POST",
               !.url = IF formulario.isEditing THEN formulario.employeeId ELSE 0]
        /\ UNCHANGED <<varsPeriodo, varsRecibo, varsFuncionarios, varsLote>>

\* the server serves the request and saveEmployee goes on: a response that is
\* not ok, or a fetch that rejects, goes to the catch block, which shows the
\* error; else resetForm runs and fetchAndRenderEmployees is awaited
ReceberRespostaDoSalvamento ==
    \E rede \in {"ok", "falha"} :
        LET f == formulario
            status == IF f.metodo = "POST" THEN statusPost(tabela, f.corpo, ambienteAtual)
                      ELSE statusPut(tabela, f.url, f.corpo)
            ok == rede = "ok" /\ RespostaOk(status)
        IN  /\ f.pc = "fetch"
            /\ status = 201 => proximoId <= MaxId
            /\ tabelaAntes' = tabela
            /\ tabela' = IF f.metodo = "POST"
                         THEN (IF status = 201 THEN inserir(tabela, proximoId, f.corpo)
                               ELSE tabela)
                         ELSE (IF status = 500 THEN tabela
                               ELSE atualizar(tabela, f.url, f.corpo))
            /\ proximoId' = IF status = 201 THEN proximoId + 1 ELSE proximoId
            /\ ultimaResposta' = Resposta(f.metodo, "index.js", f.url, f.corpo, status)
            /\ formulario' =
                  IF ok THEN [resetForm(f) EXCEPT !.pc = "render"]
                  ELSE [f EXCEPT !.pc = "ocioso", !.salvamento = "falhou",
                                 !.statusMessage = "erro"]
            /\ UNCHANGED <<ambienteAtual, varsPeriodo, varsRecibo, varsLote>>

\* fetchAndRenderEmployees resolves (it catches its own errors) and the
\* success message is set
MostrarSucesso ==
    /\ formulario.pc = "render"
    /\ formulario' = [formulario EXCEPT
           !.pc = "ocioso", !.salvamento = "ok",
           !.statusMessage = palavraDoSucesso(formulario)]
    /\ UNCHANGED <<varsPeriodo, varsRecibo, varsFuncionarios, varsLote>>

\* populateFormForEdit: a click on Editar of a row, at any moment; the
\* employee is looked up in the list the server returns and, when found, the
\* form enters edit mode
populateFormForEdit ==
    \E id \in 1..MaxId :
        /\ id \in Ids(tabela)
        /\ ~(formulario.isEditing /\ formulario.employeeId = id)
        /\ formulario' = [formulario EXCEPT !.isEditing = TRUE, !.employeeId = id]
        /\ UNCHANGED <<varsPeriodo, varsRecibo, varsFuncionarios, varsLote>>

\* cancelBtn: a click runs resetForm; the button shows in edit mode
CancelarEdicao ==
    /\ formulario.isEditing
    /\ formulario' = resetForm(formulario)
    /\ UNCHANGED <<varsPeriodo, varsRecibo, varsFuncionarios, varsLote>>

-----------------------------------------------------------------------------
(* Specifications *)

CasoNenhum == Caso("nenhum", 0, <<>>, Indefinido)

\* no receipt is being composed
ReciboNenhum == [template |-> <<>>, nomeCompleto |-> <<>>, cpf |-> <<>>]

InitReciboNenhum ==
    /\ recibo = ReciboNenhum
    /\ conteudoHtml = Indefinido

InitPeriodoNenhum ==
    /\ caso = CasoNenhum
    /\ resultado = Pendente
    /\ resultadoParte = Pendente
    /\ resultadoGemeo = Pendente
    /\ tokenArquivo = Indefinido
    /\ InitReciboNenhum

InitLote ==
    /\ diretorio = DiretorioAusente
    /\ lote = [s \in Slots |-> LoteOcioso]
    /\ removidos = {}
    /\ geracao = 0

\* the server with employees on file, before its first batch request
Init ==
    /\ InitPeriodoNenhum
    /\ ambienteAtual = "development"
    /\ tabela \in TabelasIniciais
    /\ proximoId = Len(tabela) + 1
    /\ ultimaResposta = SemResposta
    /\ tabelaAntes = tabela
    /\ InitLote
    /\ InitFormularioNenhum

\* no batch request is in flight
Sossegado == \A o \in Slots : ~EmAndamento(lote[o])

\* the batch requests, one at a time, and the deletions of employees after a
\* first batch that was answered 200
Next ==
    \/ Sossegado /\ geracao = 1 /\ lote[1].status = 200 /\ DeleteFuncionarios
    \/ GerarInicio(1, TRUE)
    \/ GerarCarregar(1)
    \/ LancarNavegador(1)
    \/ NovaPagina(1)
    \/ DefinirConteudo(1)
    \/ GerarPdf(1)
    \/ FecharPagina(1)
    \/ FecharNavegador(1)

Spec == Init /\ [][Next]_vars

\* the employee requests alone
NextFuncionarios ==
    \/ PostFuncionarios
    \/ PostFuncionariosParte
    \/ PutFuncionarios
    \/ DeleteFuncionarios

\* the server with an empty table
InitFuncionarios ==
    /\ InitPeriodoNenhum
    /\ ambienteAtual \in {"development", "production"}
    /\ tabela = <<>>
    /\ proximoId = 1
    /\ ultimaResposta = SemResposta
    /\ tabelaAntes = <<>>
    /\ InitLote
    /\ InitFormularioNenhum

SpecFuncionarios == InitFuncionarios /\ [][NextFuncionarios]_vars

\* interpretarPeriodo alone: one input, drawn from Casos, and the calls on it
InitPeriodo ==
    /\ caso \in Casos
    /\ resultado = Pendente
    /\ resultadoParte = Pendente
    /\ resultadoGemeo = Pendente
    /\ tokenArquivo = Indefinido
    /\ InitReciboNenhum
    /\ ambienteAtual = "development"
    /\ tabela = <<>>
    /\ proximoId = 1
    /\ ultimaResposta = SemResposta
    /\ tabelaAntes = <<>>
    /\ InitLote
    /\ InitFormularioNenhum

ChamarInterpretarPeriodo ==
    /\ resultado = Pendente
    /\ resultado' = interpretarPeriodo(caso.bruto)
    /\ UNCHANGED <<caso, resultadoParte, resultadoGemeo, tokenArquivo, varsRecibo,
                   varsFuncionarios, varsLote, varsFormulario>>

ChamarInterpretarPeriodoParte ==
    /\ resultadoParte = Pendente
    /\ resultadoParte' = interpretarPeriodoParte(caso.bruto)
    /\ UNCHANGED <<caso, resultado, resultadoGemeo, tokenArquivo, varsRecibo,
                   varsFuncionarios, varsLote, varsFormulario>>

\* the call of src/index.js on the same text written without diacritics
ChamarSemDiacriticos ==
    /\ resultadoGemeo = Pendente
    /\ caso.bruto.t = "string"
    /\ resultadoGemeo' = interpretarPeriodo(Str(SemDiacriticos(caso.bruto.s)))
    /\ UNCHANGED <<caso, resultado, resultadoParte, tokenArquivo, varsRecibo,
                   varsFuncionarios, varsLote, varsFormulario>>

\* lines 422-424 of the handler, for a periodo that is a non-empty string: the
\* token of the file names is stringSanitizada sanitized once more
DerivarTokenDoArquivo ==
    /\ tokenArquivo = Indefinido
    /\ caso.bruto.t = "string" /\ caso.bruto.s # <<>>
    /\ resultado.fim = "return"
    /\ tokenArquivo' = Str(periodoSanitizadoParaArquivo(resultado.stringSanitizada.s))
    /\ UNCHANGED <<caso, resultado, resultadoParte, resultadoGemeo, varsRecibo,
                   varsFuncionarios, varsLote, varsFormulario>>

NextPeriodo ==
    \/ ChamarInterpretarPeriodo
    \/ ChamarInterpretarPeriodoParte
    \/ ChamarSemDiacriticos
    \/ DerivarTokenDoArquivo

SpecPeriodo == InitPeriodo /\ [][NextPeriodo]_vars

\* the templates the receipts are composed from: every placeholder, the name
\* twice; and the name between two tax ids
Templates ==
    { <<"<", "p", ">", "{", "{", "N", "O", "M", "E", "}", "}", ",", " ", "C", "P", "F",
        " ", "{", "{", "C", "P", "F", "}", "}", ":", " ", "{", "{", "V", "A", "L", "O",
        "R", "_", "F", "O", "R", "M", "A", "T", "A", "D", "O", "}", "}", " ", "(", "{",
        "{", "V", "A", "L", "O", "R", "_", "P", "O", "R", "_", "E", "X", "T", "E", "N",
        "S", "O", "}", "}", ")", ",", " ", "{", "{", "P", "E", "R", "I", "O", "D", "O",
        "}", "}", ".", "<", "/", "p", ">", "<", "p", ">", "{", "{", "C", "I", "D", "A",
        "D", "E", "}", "}", ",", " ", "{", "{", "D", "A", "T", "A", "_", "A", "T", "U",
        "A", "L", "}", "}", ".", " ", "{", "{", "E", "M", "P", "R", "E", "S", "A", "_",
        "N", "O", "M", "E", "}", "}", " ", "{", "{", "E", "M", "P", "R", "E", "S", "A",
        "_", "C", "N", "P", "J", "}", "}", "<", "/", "p", ">", "<", "p", ">", "{", "{",
        "N", "O", "M", "E", "}", "}", "<", "/", "p", ">">>,
      <<"{", "{", "C", "P", "F", "}", "}", " ", "{", "{", "N", "O", "M", "E", "}", "}",
        " ", "{", "{", "C", "P", "F", "}", "}">> }

\* names and tax ids as they may be stored: plain, with the text of a
\* placeholder, with a replacement pattern
NomesDeRecibo ==
    { <<"A", "n", "a", " ", "L", "i", "m", "a">>,
      <<"J", "o", "s", "U+00E9">>,
      <<"{", "{", "P", "E", "R", "I", "O", "D", "O", "}", "}">>,
      <<"{", "{", "C", "P", "F", "}", "}">>,
      <<"A", "$", "&", "B">>,
      <<"$", "U+0027">>,
      <<"R", "$", "$">> }

CpfsDeRecibo ==
    { <<"1", "1", "1">>,
      <<"1", "2", "3", ".", "4", "5", "6", ".", "7", "8", "9", "-", "0", "9">>,
      <<"{", "{", "C", "I", "D", "A", "D", "E", "}", "}">>,
      <<"$", "&">>,
      <<"$", "U+0060">> }

Recibos == [template : Templates, nomeCompleto : NomesDeRecibo, cpf : CpfsDeRecibo]

InitRecibo ==
    /\ recibo \in Recibos
    /\ conteudoHtml = Indefinido
    /\ caso = CasoNenhum
    /\ resultado = Pendente
    /\ resultadoParte = Pendente
    /\ resultadoGemeo = Pendente
    /\ tokenArquivo = Indefinido
    /\ ambienteAtual = "development"
    /\ tabela = <<>>
    /\ proximoId = 1
    /\ ultimaResposta = SemResposta
    /\ tabelaAntes = <<>>
    /\ InitLote
    /\ InitFormularioNenhum

\* the handler composes the text of the receipt
MontarConteudoHtml ==
    /\ conteudoHtml = Indefinido
    /\ conteudoHtml' = Str(montarConteudoHtml(recibo.template, recibo.nomeCompleto, recibo.cpf))
    /\ UNCHANGED <<recibo, varsPeriodo, varsFuncionarios, varsLote, varsFormulario>>

NextRecibo == MontarConteudoHtml

SpecRecibo == InitRecibo /\ [][NextRecibo]_vars

\* the store the overlapping requests are observed on: one to MaxFuncionarios
\* employees, the names taken in turn
InitConcorrente ==
    /\ InitPeriodoNenhum
    /\ ambienteAtual = "development"
    /\ \E n \in 1..MaxFuncionarios :
          tabela = [i \in 1..n |->
                      Linha(i, [nome_completo |->
                                    IF i % 2 = 1 THEN <<"A", "n", "a", " ", "L", "i", "m", "a">>
                                    ELSE <<"J", "o", "s", "U+00E9">>,
                                cpf |-> CpfDe(i), salario_base |-> 1500])]
    /\ proximoId = Len(tabela) + 1
    /\ ultimaResposta = SemResposta
    /\ tabelaAntes = tabela
    /\ InitLote
    /\ InitFormularioNenhum

\* two batch requests as the server takes them: the second is accepted
\* whatever the first is doing, and the awaited steps of the two interleave
NextConcorrente ==
    \/ lote[1].pc = "ocioso" /\ GerarInicio(1, FALSE)
    \/ lote[1].pc # "ocioso" /\ lote[2].pc = "ocioso" /\ GerarInicio(2, FALSE)
    \/ \E s \in Slots :
        \/ GerarCarregar(s)
        \/ LancarNavegador(s)
        \/ NovaPagina(s)
        \/ DefinirConteudo(s)
        \/ GerarPdf(s)
        \/ FecharPagina(s)
        \/ FecharNavegador(s)

SpecConcorrente == InitConcorrente /\ [][NextConcorrente]_vars

\* the render loop of the request is between two awaited steps
EntrePassosDeRender(l) == l.pc \in {"newPage", "setContent", "pdf", "close"}

\* an employee request is served while the batch request waits on a render
\* step, on a store that has not changed since the batch loaded it
EntreDoisPassos == EntrePassosDeRender(lote[1]) /\ tabela = lote[1].lista

\* one batch request, and the employee requests that complete between two of
\* its render steps
NextIntercalado ==
    \/ geracao = 0 /\ GerarInicio(1, TRUE)
    \/ GerarCarregar(1)
    \/ LancarNavegador(1)
    \/ NovaPagina(1)
    \/ DefinirConteudo(1)
    \/ GerarPdf(1)
    \/ FecharPagina(1)
    \/ FecharNavegador(1)
    \/ EntreDoisPassos /\ PostFuncionarios
    \/ EntreDoisPassos /\ PutFuncionarios
    \/ EntreDoisPassos /\ DeleteFuncionarios

SpecIntercalado == Init /\ [][NextIntercalado]_vars

\* the page and the server behind it
NextFormulario ==
    \/ EnviarSalvamento
    \/ ReceberRespostaDoSalvamento
    \/ MostrarSucesso
    \/ populateFormForEdit
    \/ CancelarEdicao

SpecFormulario == Init /\ [][NextFormulario]_vars

-----------------------------------------------------------------------------
(* Properties of interpretarPeriodo, checked under SpecPeriodo *)

\* the calendar: the last day of a month of a year
UltimoDiaDoCalendario(mes, ano) ==
    IF mes = 2
    THEN (IF (ano % 4 = 0 /\ ano % 100 # 0) \/ ano % 400 = 0 THEN 29 ELSE 28)
    ELSE IF mes \in {4, 6, 9, 11} THEN 30 ELSE 31

\* the end day a resolved result shows: its text ends with "DD/MM)"
DiaFinal(r) ==
    LET tf == r.textoFormatado.s
    IN  parseInt(SubSeq(tf, Len(tf) - 5, Len(tf) - 4))

\* the two versions' results that have been computed
Retornados == {r \in {resultado, resultadoParte} : r.fim # "pendente"}

C1_Certo(r) ==
    /\ r.fim = "return"
    /\ r.mes = Num(caso.mes)
    /\ r.ano = Num(parseInt(caso.ano))
    /\ DiaFinal(r) = UltimoDiaDoCalendario(caso.mes, parseInt(caso.ano))
    /\ r.stringSanitizada = Str(DoisDigitosDe(caso.mes) \o <<"-">> \o caso.ano)

\* C1: for every input "MonthName/YYYY" or "MM/YYYY" (month 1..12, four-digit
\* year) interpretarPeriodo returns that month, that year, the last calendar
\* day of that month as end day, and the token MM-YYYY: two digits, a hyphen
\* and the four digits of the year.
C1_MesAnoDiaToken ==
    caso.forma \in {"nome/AAAA", "MM/AAAA"} => \A r \in Retornados : C1_Certo(r)

\* C2 as stated: two inputs "MonthName/YYYY" that differ only in the diacritics
\* of the month name give the same whole result in src/index.js, textoFormatado
\* included.
C2_ResultadoIdentico ==
    (caso.forma = "nome/AAAA" /\ resultado.fim = "return" /\ resultadoGemeo.fim = "return")
        => resultado = resultadoGemeo

\* C2 amended: the two results have the same mes, ano and stringSanitizada, and
\* their textoFormatado differ only in the diacritics of the echoed input.
C2_IgualSalvoTextoEcoado ==
    (caso.forma = "nome/AAAA" /\ resultado.fim = "return" /\ resultadoGemeo.fim = "return")
        => /\ resultado.mes = resultadoGemeo.mes
           /\ resultado.ano = resultadoGemeo.ano
           /\ resultado.stringSanitizada = resultadoGemeo.stringSanitizada
           /\ resultado.textoFormatado.t = "string"
           /\ Str(SemDiacriticos(resultado.textoFormatado.s)) = resultadoGemeo.textoFormatado

\* "mar(c with cedilla)o/YYYY" and "marco/YYYY" have both been interpreted as March
C2_Witness ==
    /\ caso.forma = "nome/AAAA"
    /\ caso.bruto.s # SemDiacriticos(caso.bruto.s)
    /\ resultado.fim = "return" /\ resultadoGemeo.fim = "return"
    /\ resultado.mes = Num(3) /\ resultadoGemeo.mes = Num(3)
    /\ resultado.textoFormatado # resultadoGemeo.textoFormatado

\* C3: when the second token is exactly two digits yy, the year is resolved as
\* 2000 + yy, with the month of the first token ("set/25": mes 9, ano 2025).
C3_AnoDoisDigitos ==
    caso.forma = "mes/AA"
        => \A r \in Retornados :
              r.fim = "return" /\ r.mes = Num(caso.mes) /\ r.ano = Num(2000 + parseInt(caso.ano))

\* C4: in both versions a call with the empty string or with null does not
\* throw; it returns the fallback, with mes and ano null.
C4_VazioOuNuloNaoLanca ==
    caso.bruto \in {Str(<<>>), Nulo}
        => \A r \in Retornados : r.fim = "return" /\ r.mes = Nulo /\ r.ano = Nulo

\* the number of tokens of a text: the starts of its runs of non-separators
NumeroDeTokens(s) ==
    Cardinality({i \in DOMAIN s :
                    ~EhSeparador(s[i]) /\ (i = 1 \/ EhSeparador(s[i - 1]))})

\* t is s without its leading and trailing blanks
EhAparado(t, s) ==
    \E a, b \in 0..Len(s) :
        /\ a + b <= Len(s)
        /\ t = SubSeq(s, a + 1, Len(s) - b)
        /\ \A i \in 1..a : EhEspaco(s[i])
        /\ \A i \in (Len(s) - b + 1)..Len(s) : EhEspaco(s[i])
        /\ t # <<>> => ~EhEspaco(t[1]) /\ ~EhEspaco(t[Len(t)])

\* u is t with '-' in the place of every code unit outside [a-zA-Z0-9]
EhSanitizado(u, t) ==
    /\ Len(u) = Len(t)
    /\ \A i \in DOMAIN t :
          u[i] = IF t[i] \in Range(Minusculas) \cup Range(Maiusculas) \cup Range(Digitos)
                 THEN t[i] ELSE "-"

\* the inputs the claim names as not resolvable: "not a period", a single
\* token, a numeric month outside 1..12
NaoResolvivel ==
    \/ caso.forma = "fora"
    \/ caso.bruto.t = "string" /\ NumeroDeTokens(caso.bruto.s) < 2
    \/ caso.bruto = Str(<<"n", "o", "t", " ", "a", " ", "p", "e", "r", "i", "o", "d">>)

C5_Fallback(r) ==
    /\ r.fim = "return"
    /\ r.mes = Nulo /\ r.ano = Nulo
    /\ r.textoFormatado.t = "string" /\ EhAparado(r.textoFormatado.s, caso.bruto.s)
    /\ r.stringSanitizada.t = "string"
    /\ EhSanitizado(r.stringSanitizada.s, r.textoFormatado.s)

\* C5: for every non-empty string from which a month in 1..12 and a year are
\* not both resolved, interpretarPeriodo returns mes and ano null,
\* textoFormatado equal to the trimmed input and stringSanitizada equal to the
\* trimmed input with '-' for every character outside [a-zA-Z0-9]; the inputs
\* the claim names (a single token, month 0 or 13, "not a period") are such.
C5_NaoResolvidoDevolveFallback ==
    (caso.bruto.t = "string" /\ caso.bruto.s # <<>>)
        => \A r \in Retornados :
              /\ NaoResolvivel => r.fim = "return" /\ r.mes = Nulo
              /\ (r.fim = "return" /\ (r.mes = Nulo \/ r.ano = Nulo)) => C5_Fallback(r)

\* both versions returned the fallback for an input with blanks around a text
\* that holds characters outside [a-zA-Z0-9]
C5_Witness ==
    /\ caso.bruto.t = "string"
    /\ NaoResolvivel
    /\ resultado.fim = "return" /\ resultadoParte.fim = "return"
    /\ resultado.mes = Nulo /\ resultadoParte.mes = Nulo
    /\ resultado.textoFormatado # caso.bruto
    /\ resultado.textoFormatado.s # <<>>
    /\ resultado.stringSanitizada # resultado.textoFormatado

-----------------------------------------------------------------------------
(* Properties of the employee requests, checked under SpecFuncionarios *)

\* C6: a POST /api/funcionarios that carries every field and a cpf an existing
\* employee already has is answered 409, and the store then holds exactly one
\* record with that cpf.
C6_CpfDuplicado409 ==
    (/\ ultimaResposta.rota = "POST"
     /\ ~CamposFaltando(ultimaResposta.corpo)
     /\ LinhasComCpf(tabelaAntes, ultimaResposta.corpo.cpf) # {})
        => /\ ultimaResposta.status = 409
           /\ Cardinality(LinhasComCpf(tabela, ultimaResposta.corpo.cpf)) = 1

\* C7: a PUT or a DELETE of an id that is not in the store is answered 404 and
\* leaves the store as it was.
C7_IdAusente404 ==
    (ultimaResposta.rota \in {"PUT", "DELETE"} /\ ultimaResposta.id \notin Ids(tabelaAntes))
        => ultimaResposta.status = 404 /\ tabela = tabelaAntes

\* a PUT of an absent id was answered while the store held an employee
C7_Witness ==
    /\ ultimaResposta.rota = "PUT"
    /\ ultimaResposta.id \notin Ids(tabelaAntes)
    /\ tabelaAntes # <<>>
    /\ ~CamposFaltando(ultimaResposta.corpo)
    /\ ultimaResposta.status = 404

-----------------------------------------------------------------------------
(* Properties of the batch requests, checked under Spec *)

\* C8: a batch request that passed validation and loaded zero employees is
\* answered 404 without a browser, a page or a rendered file, and the scratch
\* directory exists and is empty when the response is sent.
C8_SemFuncionarios ==
    \A s \in Slots :
        (lote[s].pc = "respondido" /\ lote[s].carregou /\ lote[s].lista = <<>>)
            => /\ lote[s].status = 404
               /\ lote[s].navegador = "nenhum"
               /\ lote[s].pagina = "nenhuma"
               /\ lote[s].arquivos = <<>>
               /\ diretorio.existe
               /\ diretorio.arquivos = {}

\* the 404 was sent by a request whose wipe removed the files of an earlier batch
C8_Witness ==
    /\ lote[1].pc = "respondido"
    /\ lote[1].carregou /\ lote[1].lista = <<>>
    /\ lote[1].status = 404
    /\ removidos # {}

\* sub occurs in s
Contem(s, sub) == \E i \in 0..(Len(s) - Len(sub)) : SubSeq(s, i + 1, i + Len(sub)) = sub

\* C9: after a batch request answered 200 for a resolvable period and N
\* employees, the scratch directory holds exactly N files, one per employee,
\* each name containing that employee's sanitized name and the batch's token.
C9_UmArquivoPorFuncionario ==
    \A s \in Slots :
        (lote[s].pc = "respondido" /\ lote[s].status = 200 /\ lote[s].resolvido)
            => /\ Cardinality(diretorio.arquivos) = Len(lote[s].lista)
               /\ \A i \in DOMAIN lote[s].lista :
                     \E f \in diretorio.arquivos :
                        /\ f.id = lote[s].lista[i].id
                        /\ Contem(f.nome, sanitizarNomeArquivo(lote[s].lista[i].nome_completo))
                        /\ Contem(f.nome, lote[s].token)

\* C10: with one batch request at a time, once a request has passed validation
\* and its wipe of the scratch directory has returned, every file in the
\* directory was written by that request: a file of
\* an earlier request is there only if this request wrote a file of that name.
C10_SemSobras ==
    lote[1].limpou
        => \A f \in diretorio.arquivos : f.geracao = lote[1].geracao

\* a request was answered 200 after the request before it had failed with 500
\* and left files, one of which is no longer in the directory
C10_Witness ==
    /\ lote[1].pc = "respondido" /\ lote[1].status = 200
    /\ lote[1].anterior = 500
    /\ \E f \in removidos : \A g \in diretorio.arquivos : g.nome # f.nome

\* C11: a batch request whose periodo is not a non-empty string is answered
\* 400 at once and renders nothing: no browser is launched, no file written.
C11_PeriodoInvalido400 ==
    \A s \in Slots :
        (lote[s].pc # "ocioso"
         /\ ~(lote[s].periodo.t = "string" /\ lote[s].periodo.s # <<>>))
            => /\ lote[s].pc = "respondido"
               /\ lote[s].status = 400
               /\ lote[s].lancamentos = 0
               /\ lote[s].arquivos = <<>>

\* C12: when the response of a batch request is sent, the browser is not open:
\* it was never launched, or navegador.close() has been called and awaited, on
\* success and after a failure in the loop; a close() that rejects is answered
\* 500.
C12_NavegadorLiberado ==
    \A s \in Slots :
        lote[s].pc = "respondido"
            => /\ lote[s].navegador \in {"nenhum", "fechado", "fechamento rejeitado"}
               /\ lote[s].lancamentos = 1 => lote[s].navegador # "nenhum" \/ lote[s].status = 500
               /\ lote[s].navegador = "fechamento rejeitado" => lote[s].status = 500

\* a render failed after the first document was written, and the response was
\* sent with the browser closed
C12_Witness ==
    /\ lote[1].pc = "respondido"
    /\ lote[1].erro
    /\ lote[1].arquivos # <<>>
    /\ lote[1].navegador = "fechado"

\* C13: once the render of an employee has failed, no later employee is
\* rendered and the answer is 500; a 200 is sent only when no render failed
\* and every loaded employee has its document in the list.
C13_FalhaAbortaLote ==
    \A s \in Slots :
        /\ lote[s].erro
              => /\ lote[s].pc \in {"finally", "respondido"}
                 /\ Len(lote[s].arquivos) \in {lote[s].idx - 1, lote[s].idx}
                 /\ lote[s].pc = "respondido" => lote[s].status = 500
        /\ lote[s].status = 200
              => ~lote[s].erro /\ Len(lote[s].arquivos) = Len(lote[s].lista)

\* the render of the first of two employees failed after its file was written,
\* and the request was answered 500
C13_Witness ==
    /\ lote[1].pc = "respondido" /\ lote[1].status = 500
    /\ lote[1].erro
    /\ lote[1].idx = 1 /\ Len(lote[1].lista) = 2
    /\ diretorio.arquivos # {}

\* C14: every batch request that ends without success ends in exactly one
\* response, whose body is { error }.
C14_FalhaRespondeErro ==
    \A s \in Slots :
        (lote[s].pc \in {"respondido", "rejeitado"} /\ lote[s].status # 200)
            => lote[s].respostas = 1 /\ lote[s].corpo = "error"

\* C17: the 200 of a batch request carries { files, periodo }: files holds one
\* name per loaded employee, the i-th being the name of the file of the i-th
\* employee the select returned, made with the token of the batch.
C17_ArquivosNaOrdem ==
    \A s \in Slots :
        (lote[s].pc = "respondido" /\ lote[s].status = 200)
            => /\ lote[s].corpo = "files"
               /\ Len(lote[s].arquivos) = Len(lote[s].lista)
               /\ \A i \in DOMAIN lote[s].lista :
                     lote[s].arquivos[i] =
                        nomeArquivoPdf(lote[s].lista[i].nome_completo, lote[s].token)

\* a 200 for two employees of different names
C17_Witness ==
    /\ lote[1].pc = "respondido" /\ lote[1].status = 200
    /\ Len(lote[1].lista) = 2
    /\ lote[1].lista[1].nome_completo # lote[1].lista[2].nome_completo
    /\ lote[1].arquivos[1] # lote[1].arquivos[2]

\* C20: a batch request calls puppeteer.launch at most once, exactly once when
\* it has a browser, and never has more than one page open: when newPage is
\* about to be called no page is open.
C20_UmaSessaoUmaPagina ==
    \A s \in Slots :
        /\ lote[s].lancamentos <= 1
        /\ lote[s].navegador # "nenhum" => lote[s].lancamentos = 1
        /\ lote[s].paginasAbertas <= 1
        /\ lote[s].pc = "newPage" => lote[s].paginasAbertas = 0

\* the page of the second employee is about to be opened
C20_Witness ==
    /\ lote[1].pc = "newPage"
    /\ lote[1].idx = 2
    /\ lote[1].pagina = "fechada"
    /\ lote[1].lancamentos = 1

\* C18: the amount-in-words conversion that fails for an employee leaves the
\* field empty and aborts nothing: the render of that employee goes on, the
\* batch fails only when an await rejects, and a batch answered 200 reports the
\* document of that employee.
C18_ExtensoVazioNaoAborta ==
    \A s \in Slots :
        /\ lote[s].erro => lote[s].awaitRejeitado
        /\ lote[s].semExtenso => lote[s].valorPorExtenso = <<>>
        /\ (lote[s].pc = "respondido" /\ lote[s].status = 200 /\ lote[s].semExtenso)
              => /\ Len(lote[s].arquivos) = Len(lote[s].lista)
                 /\ \E f \in diretorio.arquivos :
                        f.nome = lote[s].arquivos[Len(lote[s].lista)]

\* a 200 for a batch of two employees in which the conversion failed for the
\* last one
C18_Witness ==
    /\ lote[1].pc = "respondido" /\ lote[1].status = 200
    /\ lote[1].semExtenso
    /\ Len(lote[1].arquivos) = 2

-----------------------------------------------------------------------------
(* Further properties of interpretarPeriodo, checked under SpecPeriodo *)

\* C15: for every input string the period token of the file names is in lower
\* case and holds only letters, digits and hyphens.
C15_TokenMinusculo ==
    tokenArquivo # Indefinido
        => \A i \in DOMAIN tokenArquivo.s :
              tokenArquivo.s[i] \in Range(Minusculas) \cup Range(Digitos) \cup {"-"}

\* the text "01/MM a DD/MM" of a month and its last day
FaixaComA(mes, dia) ==
    <<"0", "1", "/">> \o DoisDigitosDe(mes) \o <<" ", "a", " ">>
    \o DoisDigitosDe(dia) \o <<"/">> \o DoisDigitosDe(mes)

\* C16 as stated: when src/index.js resolves month and year, textoFormatado
\* holds the range written "01/MM a DD/MM", DD the last day of the month.
C16_FaixaComA ==
    (caso.forma \in {"nome/AAAA", "MM/AAAA", "M/AAAA"} /\ resultado.fim = "return")
        => Contem(resultado.textoFormatado.s,
                  FaixaComA(caso.mes, UltimoDiaDoCalendario(caso.mes, parseInt(caso.ano))))

\* C16 amended: textoFormatado is the trimmed input as typed, followed by
\* " (01/MM) (DD/MM)": two parenthesised dates, no word between them, DD the
\* zero-padded last day of the month and MM the zero-padded month.
C16_FaixaEntreParenteses ==
    (caso.forma \in {"nome/AAAA", "MM/AAAA", "M/AAAA"} /\ resultado.fim = "return")
        => resultado.textoFormatado =
              Str(caso.bruto.s \o <<" ", "(", "0", "1", "/">> \o DoisDigitosDe(caso.mes)
                  \o <<")", " ", "(">>
                  \o DoisDigitosDe(UltimoDiaDoCalendario(caso.mes, parseInt(caso.ano)))
                  \o <<"/">> \o DoisDigitosDe(caso.mes) \o <<")">>)

\* February of a leap year was resolved from a one-digit month
C16_Witness ==
    /\ caso.forma = "M/AAAA"
    /\ caso.mes = 2 /\ caso.ano = <<"2", "0", "2", "4">>
    /\ resultado.fim = "return"
    /\ resultado.mes = Num(2)

-----------------------------------------------------------------------------
(* Properties of the text of a receipt, checked under SpecRecibo *)

\* the placeholders with the values of a receipt
CamposDoRecibo(nomeCompleto, cpf) ==
    << <<Marcador_NOME, nomeCompleto>>, <<Marcador_CPF, cpf>>,
       <<Marcador_VALOR_FORMATADO, valorFormatado>>,
       <<Marcador_VALOR_POR_EXTENSO, PorExtenso>>,
       <<Marcador_PERIODO, periodoCompleto>>,
       <<Marcador_DATA_ATUAL, dataAtualFormatada>>,
       <<Marcador_EMPRESA_NOME, DADOS_EMPRESA.nome>>,
       <<Marcador_EMPRESA_CNPJ, DADOS_EMPRESA.cnpj>>,
       <<Marcador_CIDADE, DADOS_EMPRESA.cidade>> >>

\* the text a template becomes, from position i on, when each placeholder that
\* the template itself holds gets its value as it is
RECURSIVE CopiaFiel(_, _, _)
CopiaFiel(s, i, campos) ==
    LET posicoes == {j \in i..Len(s) : \E k \in DOMAIN campos : ComecaCom(s, j, campos[k][1])}
    IN  IF posicoes = {} THEN SubSeq(s, i, Len(s))
        ELSE LET j == CHOOSE j \in posicoes : \A k \in posicoes : j <= k
                 c == CHOOSE k \in DOMAIN campos : ComecaCom(s, j, campos[k][1])
             IN  SubSeq(s, i, j - 1) \o campos[c][2]
                 \o CopiaFiel(s, j + Len(campos[c][1]), campos)

\* C19: the text of a receipt is its template with the full name and the tax
\* id copied verbatim at every occurrence of their placeholders, whatever
\* characters they hold; no substitution of the chain alters them.
C19_NomeECpfCopiadosFielmente ==
    conteudoHtml # Indefinido
        => conteudoHtml.s =
              CopiaFiel(recibo.template, 1, CamposDoRecibo(recibo.nomeCompleto, recibo.cpf))

-----------------------------------------------------------------------------
(* Properties of overlapping batch requests, checked under SpecConcorrente *)

\* a name the request l reports has no file in the directory
ArquivoFaltando(l, dir) ==
    \E i \in DOMAIN l.arquivos : \A f \in dir.arquivos : f.nome # l.arquivos[i]

\* C21: batch requests are not mutually excluded on temp_pdfs. A request
\* answers 200 with the name of a file that is not in the directory at that
\* moment only when another request wiped the directory while the first was
\* in flight; and the interleaving in which the wipe falls between two render
\* steps of the first is reachable (C21_Witness).
C21_FaltaSoPorApagamento ==
    [][\A s \in Slots :
          (/\ lote[s].pc = "finally"
           /\ lote'[s].status = 200
           /\ ArquivoFaltando(lote'[s], diretorio'))
          => lote[s].apagadoEm # "nenhum"]_vars

\* the first request was wiped by the second between two render steps, went
\* on, and has just answered 200 reporting a file that is not in the directory
C21_Witness ==
    /\ lote[1].status = 200
    /\ lote[1].apagadoEm \in {"newPage", "setContent", "pdf", "close"}
    /\ lote[2].geracao > lote[1].geracao
    /\ lote[2].limpou
    /\ ArquivoFaltando(lote[1], diretorio)
    /\ diretorio.existe

-----------------------------------------------------------------------------
(* Properties of the employee fields, checked under SpecFuncionarios *)

\* C22: after any sequence of POST, PUT and DELETE requests every employee on
\* file has a non-empty name, a non-empty tax id and a salary that is not
\* negative; and a POST with a non-empty name, a tax id no employee has and a
\* salary that is not negative, zero included, is answered 201.
C22_CamposValidosEZeroAceito ==
    /\ \A i \in DOMAIN tabela :
          /\ tabela[i].nome_completo # <<>>
          /\ tabela[i].cpf # <<>>
          /\ tabela[i].salario_base >= 0
    /\ (/\ ultimaResposta.rota = "POST"
        /\ ultimaResposta.versao = "index.js"
        /\ ultimaResposta.corpo.nome_completo # <<>>
        /\ ultimaResposta.corpo.cpf # <<>>
        /\ ultimaResposta.corpo.salario_base >= 0
        /\ ~ViolaUnicidade(tabelaAntes, ultimaResposta.corpo.cpf, 0))
       => ultimaResposta.status = 201

-----------------------------------------------------------------------------
(* Properties of the rejected batch request, checked under Spec *)

\* C23: a batch request answered 400 leaves temp_pdfs exactly as it was, the
\* directory is wiped and recreated only after the period passed validation;
\* so the files an earlier batch reported with its 200 are still there.
C23_Recusa400NaoTocaDiretorio ==
    [][(lote'[1].geracao # lote[1].geracao /\ lote'[1].status = 400)
       => /\ diretorio' = diretorio
          /\ lote[1].status = 200 => ~ArquivoFaltando(lote[1], diretorio')]_vars

\* a request was answered 400 right after a batch answered 200, and the files
\* of that batch are in the directory
C23_Witness ==
    /\ lote[1].status = 400
    /\ lote[1].anterior = 200
    /\ Falsy(lote[1].periodo)
    /\ diretorio.existe
    /\ \E f \in diretorio.arquivos : f.geracao = lote[1].geracao - 1

-----------------------------------------------------------------------------
(* Properties of the list a batch works on, checked under SpecIntercalado *)

\* the names of the files of the first k employees of the list of l
NomesDosPrimeiros(l, k) ==
    [i \in 1..k |-> nomeArquivoPdf(l.lista[i].nome_completo, l.token)]

\* the list l works on is the table as the select returned it
C24_ListaCarregadaUmaVez ==
    /\ (lote[1].pc = "select" /\ lote'[1].carregou) => lote'[1].lista = tabela
    /\ lote[1].carregou => lote'[1].lista = lote[1].lista

\* C24: a batch renders the employees that were in the store at the one moment
\* the select returned them. The list is taken then and never again, the files
\* reported are those of its employees in its order, each file written holds
\* the employee of the list, and a 200 reports all of them; the POST, PUT and
\* DELETE requests served between two render steps change none of it.
C24_LoteRenderizaOQueCarregou ==
    /\ [][C24_ListaCarregadaUmaVez]_vars
    /\ [](/\ Len(lote[1].arquivos) <= Len(lote[1].lista)
          /\ lote[1].arquivos = NomesDosPrimeiros(lote[1], Len(lote[1].arquivos))
          /\ \A f \in diretorio.arquivos :
                \E i \in DOMAIN lote[1].arquivos :
                    f.nome = lote[1].arquivos[i] /\ f.id = lote[1].lista[i].id
          /\ lote[1].status = 200 => Len(lote[1].arquivos) = Len(lote[1].lista))

\* the batch answered 200 after an employee request had changed, between two
\* render steps, an employee the batch still had to render
C24_Witness ==
    /\ lote[1].status = 200
    /\ ultimaResposta.status \in {200, 201, 204}
    /\ tabela # lote[1].lista
    /\ tabelaAntes = lote[1].lista
    /\ \E i \in DOMAIN lote[1].lista :
          \A j \in DOMAIN tabela : tabela[j] # lote[1].lista[i]

-----------------------------------------------------------------------------
(* Properties of the shape of the result, checked under SpecPeriodo *)

\* two digits, a hyphen, four digits
FormaMesAno(s) ==
    /\ Len(s) = 7
    /\ s[3] = "-"
    /\ \A i \in {1, 2, 4, 5, 6, 7} : EhDigito(s[i])

\* mes and ano of r are both numbers or both null; when numbers, mes is in
\* 1..12 and stringSanitizada is MM-YYYY
C25_BemFormado(r) ==
    /\ r.mes = Nulo <=> r.ano = Nulo
    /\ r.mes # Nulo =>
          /\ r.mes.t = "number" /\ r.ano.t = "number"
          /\ r.mes.n \in 1..12
          /\ r.stringSanitizada.t = "string"
          /\ FormaMesAno(r.stringSanitizada.s)

\* C25: for every input the result of interpretarPeriodo has mes and ano both
\* resolved or both null; a resolved mes is an integer in 1..12 and then
\* stringSanitizada has the form MM-YYYY; a numeric month outside 1..12 ("0",
\* "00", "13") gives the unresolved result.
C25_ResultadoBemFormado ==
    \A r \in {x \in Retornados : x.fim = "return"} :
        /\ C25_BemFormado(r)
        /\ caso.forma = "fora" => (r.mes = Nulo /\ r.ano = Nulo)

-----------------------------------------------------------------------------
(* Properties of saveEmployee, checked under SpecFormulario *)

\* the message of the last save that succeeded names the kind of save it was
C26_MensagemDizOQueFoi ==
    formulario.salvamento = "ok" =>
        /\ formulario.statusMessage = "atualizado" <=> formulario.metodo = "PUT"
        /\ formulario.statusMessage = "salvo" <=> formulario.metodo = "POST"

\* the step that receives the response of the save: creation mode after a
\* success, the edit mode as it was after a failure
C26_ModoDepoisDoSalvamento ==
    /\ (formulario.pc = "fetch" /\ formulario'.pc = "render")
       => (~formulario'.isEditing /\ formulario'.employeeId = 0)
    /\ (formulario.pc = "fetch" /\ formulario'.salvamento = "falhou")
       => /\ formulario'.isEditing = formulario.isEditing
          /\ formulario'.employeeId = formulario.employeeId

\* C26: in saveEmployee, after a successful save the status message says
\* "atualizado" exactly when the save was an update (edit mode, PUT) and
\* "salvo" exactly when it was a creation (POST); after a successful save the
\* form is in creation mode (isEditing false, employee id empty), and a failed
\* save leaves the edit mode as it was.
C26_MensagemEModoDoFormulario ==
    /\ [](C26_MensagemDizOQueFoi /\ (formulario.metodo = "PUT" <=> formulario.editando))
    /\ [][C26_ModoDepoisDoSalvamento]_vars

=============================================================================
